---- MODULE Spec2Model ----
(***************************************************************************)
(* Capture screen (HomeScreen) of Smartleaf/app/(tabs)/index.tsx.          *)
(*                                                                         *)
(* The state is the component's React state (permission, facing,           *)
(* capturedImage), its camera ref, and the platform calls it has started   *)
(* and that have not completed yet (permission requests, takePictureAsync, *)
(* launchImageLibraryAsync).  Every handler of the component is one        *)
(* action; the part of an async handler after its await is the action that *)
(* completes the platform call.  What the component renders is a function  *)
(* of the state, and a control can be pressed only where it is rendered.   *)
(***************************************************************************)
EXTENDS Integers, FiniteSets, Sequences, TLC

\* ------------------------------------------------------------------ bounds
\* number of distinct image URIs the platform may hand back
NumUris == 2
\* platform calls (capture, pick) that may be awaiting completion at once
MaxInflight == 2
\* presses of the Grant Permission control that are explored
MaxManualRequests == 2

\* ------------------------------------------------------------------ values
\* capturedImage is `string | null`; URIs are 1..NumUris, null is Null
Null == 0
Uris == 1 .. NumUris

\* `permission` of useCameraPermissions: null, {granted: false}, {granted: true}
PermissionValues == {"Unknown", "Denied", "Granted"}

NoNotice == "none"

VARIABLES
  isWeb,          \* Platform.OS === 'web'
  permission,     \* first element of useCameraPermissions()
  facing,         \* useState 'back' | 'front'
  capturedImage,  \* useState string | null
  cameraRef,      \* cameraRef.current is attached (TRUE) or null (FALSE)
  mounted,        \* the mount effect has run
  getPending,     \* the permission hook's own status query is unanswered
  permRequests,   \* requestPermission() calls awaiting the platform
  inflight,       \* capture / pick calls awaiting the platform
  notice,         \* Alert.alert raised by the last step, or NoNotice
  lastEvent,      \* history: name of the last step
  issued,         \* history: permission requests issued, by cause
  preCapture,     \* history: state in which capture was last pressed
  roundTrip       \* history: progress of a press, stored capture, retake run

vars == <<isWeb, permission, facing, capturedImage, cameraRef, mounted,
          getPending, permRequests, inflight, notice, lastEvent, issued,
          preCapture, roundTrip>>

\* ------------------------------------------------------------------ render
\* JS truthiness of capturedImage (a URI handed back by the platform is a
\* non-empty string)
Truthy(img) == img # Null

\* Screen without the permission-denied return
Screen_NoDeniedGate(web, perm) ==
  IF ~web /\ perm = "Unknown" THEN "loading" ELSE "main"

\* Screen without the loading return
Screen_NoLoadingGate(web, perm) ==
  IF ~web /\ perm # "Unknown" /\ perm # "Granted" THEN "permissionRequest"
  ELSE "main"

\* the three-way return of HomeScreen
Screen(web, perm) ==
  IF ~web /\ perm = "Unknown" THEN "loading"
  ELSE IF ~web /\ perm # "Unknown" /\ perm # "Granted" THEN "permissionRequest"
  ELSE "main"

LoadingRendered == Screen(isWeb, permission) = "loading"

PermissionRequestRendered == Screen(isWeb, permission) = "permissionRequest"

GrantButtonRendered == PermissionRequestRendered

\* camera container without the isWeb branch
CameraContainer_NoWebBranch(web, img) ==
  IF Truthy(img) THEN "preview" ELSE "camera"

\* what the camera container of the main view holds
CameraContainer(web, img) ==
  IF Truthy(img) THEN "preview"
  ELSE IF web THEN "webPlaceholder"
  ELSE "camera"

Container(web, perm, img) ==
  IF Screen(web, perm) = "main" THEN CameraContainer(web, img) ELSE "absent"

PreviewRendered == Container(isWeb, permission, capturedImage) = "preview"

WebPlaceholderRendered ==
  Container(isWeb, permission, capturedImage) = "webPlaceholder"

CameraViewRendered == Container(isWeb, permission, capturedImage) = "camera"

\* controls gated on the platform only
ControlsShown_IgnoresImage(web, img) == ~web

\* controls block hoisted above the permission returns
ControlsRendered_IgnoresScreen ==
  ~isWeb /\ ~Truthy(capturedImage)

\* {!isWeb && !capturedImage && (<controls>)}
ControlsShown(web, img) == ~web /\ ~Truthy(img)

ControlsRendered ==
  Screen(isWeb, permission) = "main" /\ ControlsShown(isWeb, capturedImage)

\* {capturedImage && (<bottomAction>)}
BottomActionShown(img) == Truthy(img)

BottomActionRendered ==
  Screen(isWeb, permission) = "main" /\ BottomActionShown(capturedImage)

\* the ref is attached exactly while the CameraView is mounted
Commit == cameraRef' = (Container(isWeb', permission', capturedImage') = "camera")

\* ------------------------------------------------------------------ helpers
Snapshot == [img |-> capturedImage, facing |-> facing, permission |-> permission]

FreeIds == (1 .. MaxInflight) \ {op.id : op \in inflight}

\* a call the handler has started; stale and perm are history: the call was
\* started before the latest retake, and the permission when it was started
NewOp(kind) == [id |-> CHOOSE i \in FreeIds : \A j \in FreeIds : i <= j,
                kind |-> kind, stale |-> FALSE, perm |-> permission]

\* what the platform can answer
PickResults ==
  {[kind |-> "canceled", uri |-> Null], [kind |-> "throw", uri |-> Null]}
  \cup {[kind |-> "asset", uri |-> u] : u \in Uris}

CaptureResults ==
  {[kind |-> "undefined", uri |-> Null], [kind |-> "throw", uri |-> Null]}
  \cup {[kind |-> "photo", uri |-> u] : u \in Uris}

\* handleUploadImage with the canceled test inverted
UploadOutcome_InvertedCancel(result, img) ==
  IF result.kind = "throw" \/ result.kind = "canceled"
    THEN [img |-> img, notice |-> "Failed to pick image"]
  ELSE [img |-> img, notice |-> NoNotice]

\* handleUploadImage after the await: new capturedImage and alert
UploadOutcome(result, img) ==
  IF result.kind = "throw"
    THEN [img |-> img, notice |-> "Failed to pick image"]
  ELSE IF result.kind # "canceled"
    THEN [img |-> result.uri, notice |-> NoNotice]
  ELSE [img |-> img, notice |-> NoNotice]

\* handleCapturePhoto whose catch block also clears the image
CaptureOutcome_ResetOnError(result, img) ==
  IF result.kind = "throw"
    THEN [img |-> Null, notice |-> "Failed to capture photo"]
  ELSE IF result.kind = "photo"
    THEN [img |-> result.uri, notice |-> NoNotice]
  ELSE [img |-> img, notice |-> NoNotice]

\* handleCapturePhoto with an empty catch block
CaptureOutcome_SilentCatch(result, img) ==
  IF result.kind = "photo"
    THEN [img |-> result.uri, notice |-> NoNotice]
  ELSE [img |-> img, notice |-> NoNotice]

\* handleCapturePhoto after the await: new capturedImage and alert
CaptureOutcome(result, img) ==
  IF result.kind = "throw"
    THEN [img |-> img, notice |-> "Failed to capture photo"]
  ELSE IF result.kind = "photo"
    THEN [img |-> result.uri, notice |-> NoNotice]
  ELSE [img |-> img, notice |-> NoNotice]

\* updater that selects the front lens instead of flipping
Flip_AlwaysFront(current) == "front"

\* setFacing(current => (current === 'back' ? 'front' : 'back'))
Flip(current) == IF current = "back" THEN "front" ELSE "back"

\* retake that also resets the camera to the back lens
RetakeState_ResetsFacing(s) == [s EXCEPT !.img = Null, !.facing = "back"]

\* retake written as a toggle of the stored image
RetakeState_Toggle(s) ==
  [s EXCEPT !.img = IF s.img # Null THEN Null ELSE 1]

\* setCapturedImage(null), the rest of the state as it was
RetakeState(s) == [s EXCEPT !.img = Null]

\* ------------------------------------------------------------------ Init
Init ==
  /\ isWeb \in BOOLEAN
  /\ permission = "Unknown"
  /\ facing = "back"
  /\ capturedImage = Null
  /\ cameraRef = FALSE
  /\ mounted = FALSE
  /\ getPending = FALSE
  /\ permRequests = 0
  /\ inflight = {}
  /\ notice = NoNotice
  /\ lastEvent = "init"
  /\ issued = [auto |-> 0, manual |-> 0]
  /\ preCapture = [img |-> Null, facing |-> "back", permission |-> "Unknown"]
  /\ roundTrip = "none"

\* ------------------------------------------------------------------ actions
\* mount effect without the Platform.OS test
Mount_RequestsOnWeb ==
  /\ ~mounted
  /\ mounted' = TRUE
  /\ getPending' = TRUE
  /\ permRequests' = permRequests + 1
  /\ issued' = [issued EXCEPT !.auto = @ + 1]
  /\ notice' = NoNotice
  /\ lastEvent' = "mount"
  /\ UNCHANGED <<isWeb, permission, facing, capturedImage, inflight, preCapture>>
  /\ roundTrip' = "none"
  /\ Commit

\* first commit: the permission hook queries the status, and the mount
\* effect requests permission unless on web
Mount ==
  /\ ~mounted
  /\ mounted' = TRUE
  /\ getPending' = TRUE
  /\ IF ~isWeb
       THEN /\ permRequests' = permRequests + 1
            /\ issued' = [issued EXCEPT !.auto = @ + 1]
       ELSE UNCHANGED <<permRequests, issued>>
  /\ notice' = NoNotice
  /\ lastEvent' = "mount"
  /\ UNCHANGED <<isWeb, permission, facing, capturedImage, inflight, preCapture>>
  /\ roundTrip' = "none"
  /\ Commit

\* the hook's status query is answered
PermissionGetResolve(status) ==
  /\ mounted
  /\ getPending
  /\ getPending' = FALSE
  /\ permission' = status
  /\ notice' = NoNotice
  /\ lastEvent' = "permissionGet"
  /\ UNCHANGED <<isWeb, facing, capturedImage, mounted, permRequests, inflight,
                 issued, preCapture>>
  /\ roundTrip' = "none"
  /\ Commit

\* a requestPermission() call is answered
PermissionRequestResolve(status) ==
  /\ permRequests > 0
  /\ permRequests' = permRequests - 1
  /\ permission' = status
  /\ notice' = NoNotice
  /\ lastEvent' = "permissionResolved"
  /\ UNCHANGED <<isWeb, facing, capturedImage, mounted, getPending, inflight,
                 issued, preCapture>>
  /\ roundTrip' = "none"
  /\ Commit

\* Grant Permission onPress
PressGrantPermission ==
  /\ mounted
  /\ GrantButtonRendered
  /\ issued.manual < MaxManualRequests
  /\ permRequests' = permRequests + 1
  /\ issued' = [issued EXCEPT !.manual = @ + 1]
  /\ notice' = NoNotice
  /\ lastEvent' = "grantPermission"
  /\ UNCHANGED <<isWeb, permission, facing, capturedImage, mounted, getPending,
                 inflight, preCapture>>
  /\ roundTrip' = "none"
  /\ Commit

\* handleUploadImage up to its await
PressUpload ==
  /\ mounted
  /\ WebPlaceholderRendered \/ ControlsRendered
  /\ Cardinality(inflight) < MaxInflight
  /\ inflight' = inflight \cup {NewOp("pick")}
  /\ notice' = NoNotice
  /\ lastEvent' = "pressUpload"
  /\ UNCHANGED <<isWeb, permission, facing, capturedImage, mounted, getPending,
                 permRequests, issued, preCapture>>
  /\ roundTrip' = "none"
  /\ Commit

\* handleUploadImage from its await on
PickResolve(op, result) ==
  /\ op \in inflight
  /\ op.kind = "pick"
  /\ inflight' = inflight \ {op}
  /\ capturedImage' = UploadOutcome(result, capturedImage).img
  /\ notice' = UploadOutcome(result, capturedImage).notice
  /\ lastEvent' = IF result.kind = "asset" THEN "pickStored"
                  ELSE IF result.kind = "canceled" THEN "pickCanceled"
                  ELSE "pickFailed"
  /\ UNCHANGED <<isWeb, permission, facing, mounted, getPending, permRequests,
                 issued, preCapture>>
  /\ roundTrip' = "none"
  /\ Commit

\* handleCapturePhoto up to its await
PressCapture ==
  /\ mounted
  /\ ControlsRendered
  /\ Cardinality(inflight) < MaxInflight
  /\ IF isWeb
       THEN /\ notice' = "Camera Not Available"
            /\ UNCHANGED inflight
       ELSE /\ notice' = NoNotice
            /\ IF cameraRef
                 THEN inflight' = inflight \cup {NewOp("capture")}
                 ELSE UNCHANGED inflight
  /\ lastEvent' = "pressCapture"
  /\ UNCHANGED <<isWeb, permission, facing, capturedImage, mounted, getPending,
                 permRequests, issued>>
  /\ preCapture' = Snapshot
  /\ roundTrip' = "pressed"
  /\ Commit

\* handleCapturePhoto from its await on
CaptureResolve(op, result) ==
  /\ op \in inflight
  /\ op.kind = "capture"
  /\ inflight' = inflight \ {op}
  /\ capturedImage' = CaptureOutcome(result, capturedImage).img
  /\ notice' = CaptureOutcome(result, capturedImage).notice
  /\ lastEvent' = IF result.kind = "photo" THEN "captureStored"
                  ELSE IF result.kind = "undefined" THEN "captureEmpty"
                  ELSE "captureFailed"
  /\ roundTrip' = IF result.kind = "photo" /\ roundTrip = "pressed"
                  THEN "captured" ELSE "none"
  /\ UNCHANGED <<isWeb, permission, facing, mounted, getPending, permRequests,
                 issued, preCapture>>
  /\ Commit

\* camera-reverse onPress
ToggleFacing ==
  /\ mounted
  /\ ControlsRendered
  /\ facing' = Flip(facing)
  /\ notice' = NoNotice
  /\ lastEvent' = "toggleFacing"
  /\ UNCHANGED <<isWeb, permission, capturedImage, mounted, getPending,
                 permRequests, inflight, issued, preCapture>>
  /\ roundTrip' = "none"
  /\ Commit

\* Retake onPress
Retake ==
  /\ mounted
  /\ BottomActionRendered
  /\ capturedImage' = RetakeState(Snapshot).img
  /\ facing' = RetakeState(Snapshot).facing
  /\ permission' = RetakeState(Snapshot).permission
  /\ notice' = NoNotice
  /\ lastEvent' = "retake"
  /\ inflight' = {[op EXCEPT !.stale = TRUE] : op \in inflight}
  /\ UNCHANGED <<isWeb, mounted, getPending, permRequests, issued, preCapture>>
  /\ roundTrip' = IF roundTrip = "captured" THEN "retaken" ELSE "none"
  /\ Commit

\* analyze that discards the image once it has been handed over
Analyze_ClearsImage ==
  /\ mounted
  /\ BottomActionRendered
  /\ capturedImage' = Null
  /\ notice' = "Analyzing"
  /\ lastEvent' = "analyze"
  /\ UNCHANGED <<isWeb, permission, facing, mounted, getPending,
                 permRequests, inflight, issued, preCapture>>
  /\ roundTrip' = "none"
  /\ Commit

\* Analyze onPress
Analyze ==
  /\ mounted
  /\ BottomActionRendered
  /\ notice' = "Analyzing"
  /\ lastEvent' = "analyze"
  /\ UNCHANGED <<isWeb, permission, facing, capturedImage, mounted, getPending,
                 permRequests, inflight, issued, preCapture>>
  /\ roundTrip' = "none"
  /\ Commit

Next ==
  \/ Mount
  \/ \E status \in {"Denied", "Granted"} : PermissionGetResolve(status)
  \/ \E status \in {"Denied", "Granted"} : PermissionRequestResolve(status)
  \/ PressGrantPermission
  \/ PressUpload
  \/ \E op \in inflight, result \in PickResults : PickResolve(op, result)
  \/ PressCapture
  \/ \E op \in inflight, result \in CaptureResults : CaptureResolve(op, result)
  \/ ToggleFacing
  \/ Retake
  \/ Analyze

Spec == Init /\ [][Next]_vars

TypeOK ==
  /\ isWeb \in BOOLEAN
  /\ permission \in PermissionValues
  /\ facing \in {"back", "front"}
  /\ capturedImage \in {Null} \cup Uris
  /\ cameraRef \in BOOLEAN
  /\ permRequests \in 0 .. (MaxManualRequests + 1)
  /\ Cardinality(inflight) <= MaxInflight

\* ------------------------------------------------------------------ claims
\* C1: the live camera view is rendered if and only if no image is stored,
\* the platform is not web and the permission is Granted.
C1_CameraViewIff ==
  CameraViewRendered <=>
    (capturedImage = Null /\ ~isWeb /\ permission = "Granted")

C1_Witness ==
  /\ CameraViewRendered
  /\ lastEvent = "permissionResolved"
  /\ issued.manual > 0

\* C2: while a capture, a gallery pick or a permission request awaits its
\* platform completion, no capture, pick or toggle is started.
C2_NoConcurrentStart ==
  [][(inflight # {} \/ permRequests > 0)
       => lastEvent' \notin {"pressCapture", "pressUpload", "toggleFacing"}]_vars

\* C3: capturedImage goes from null to a reference only by a capture or pick
\* completion that stores, from a reference to null only by retake, and no
\* other event changes it.
C3_ImageLifecycle ==
  [][/\ (capturedImage = Null /\ capturedImage' # Null)
          => lastEvent' \in {"captureStored", "pickStored"}
     /\ (capturedImage # Null /\ capturedImage' = Null)
          => lastEvent' = "retake"
     /\ lastEvent' \notin {"captureStored", "pickStored", "retake"}
          => capturedImage' = capturedImage]_vars

C3_Witness ==
  /\ lastEvent = "captureFailed"
  /\ capturedImage # Null

\* C4: a capture pressed in Idle on a camera platform invokes the platform
\* capture; when it succeeds the returned reference is stored and the state
\* is Previewing; when it fails the stored image is unchanged (Idle stays
\* Idle) and the error notice is raised.
C4_CaptureOutcome ==
  [][/\ PressCapture
          => /\ ~isWeb /\ capturedImage = Null
             /\ Cardinality(inflight') = Cardinality(inflight) + 1
             /\ capturedImage' = Null
     /\ \A op \in inflight, result \in CaptureResults :
          CaptureResolve(op, result)
            => /\ result.kind = "photo"
                    => capturedImage' = result.uri /\ Truthy(capturedImage')
               /\ result.kind = "throw"
                    => /\ capturedImage' = capturedImage
                       /\ notice' = "Failed to capture photo"]_vars

C4_Witness ==
  /\ lastEvent = "captureFailed"
  /\ capturedImage = Null
  /\ notice = "Failed to capture photo"
  /\ ~isWeb

\* C5: a pick that is canceled leaves the stored image unchanged (Idle stays
\* Idle); a pick that returns an asset stores its reference and the state is
\* Previewing; a pick that throws leaves the stored image unchanged and
\* raises the error notice.
C5_UploadOutcome ==
  [][/\ PressUpload => capturedImage = Null /\ capturedImage' = Null
     /\ \A op \in inflight, result \in PickResults :
          PickResolve(op, result)
            => /\ result.kind = "canceled" => capturedImage' = capturedImage
               /\ result.kind = "asset"
                    => capturedImage' = result.uri /\ Truthy(capturedImage')
               /\ result.kind = "throw"
                    => /\ capturedImage' = capturedImage
                       /\ notice' = "Failed to pick image"]_vars

C5_Witness ==
  /\ isWeb
  /\ lastEvent = "pickCanceled"
  /\ capturedImage = Null
  /\ WebPlaceholderRendered

\* C6: on a camera platform Unknown shows the loading view, Denied the
\* permission-request view with its retry control, and the main UI shows
\* only when Granted; pressing retry issues one more permission request, and
\* a request answered in the Denied view leaves Granted (camera view shown
\* when no image is stored) or Denied (retry still offered).
C6_PermissionGate ==
  /\ [](~isWeb =>
          /\ permission = "Unknown" => LoadingRendered
          /\ permission = "Denied"
               => PermissionRequestRendered /\ GrantButtonRendered
          /\ Screen(isWeb, permission) = "main" => permission = "Granted")
  /\ [][/\ PressGrantPermission => permRequests' = permRequests + 1
        /\ (~isWeb /\ permission = "Denied"
              /\ lastEvent' = "permissionResolved")
             => \/ /\ permission' = "Granted"
                   /\ capturedImage' = Null => CameraViewRendered'
                \/ /\ permission' = "Denied"
                   /\ GrantButtonRendered']_vars

C6_Witness ==
  /\ ~isWeb
  /\ issued.manual > 0
  /\ lastEvent = "permissionResolved"
  /\ permission = "Granted"
  /\ CameraViewRendered

\* C7: on web the camera view, the loading view and the permission-request
\* view are never rendered, whatever the permission, and the upload-only
\* fallback is rendered exactly when no image is stored.
C7_WebFallback ==
  isWeb =>
    /\ ~CameraViewRendered
    /\ ~LoadingRendered
    /\ ~PermissionRequestRendered
    /\ WebPlaceholderRendered <=> (capturedImage = Null)

C7_Witness ==
  /\ isWeb
  /\ permission = "Denied"
  /\ capturedImage = Null
  /\ WebPlaceholderRendered
  /\ lastEvent = "retake"

\* C8: the capture controls and the bottom action are never rendered
\* together; the controls only with no image stored on a camera platform,
\* the bottom action only with an image stored.
C8_ControlsExclusive ==
  /\ ~(ControlsRendered /\ BottomActionRendered)
  /\ ControlsRendered => capturedImage = Null /\ ~isWeb
  /\ BottomActionRendered => capturedImage # Null

C8_Witness ==
  /\ ~isWeb
  /\ BottomActionRendered
  /\ ~ControlsRendered
  /\ lastEvent = "captureStored"

\* C9: the mount effect issues exactly one permission request on a camera
\* platform and none on web, and every other permission request is issued
\* by a press of Grant Permission.
C9_AutoRequestOnce ==
  /\ [](/\ ~mounted => issued.auto = 0 /\ permRequests = 0
        /\ mounted => issued.auto = (IF isWeb THEN 0 ELSE 1))
  /\ [][/\ permRequests' > permRequests
             => /\ lastEvent' \in {"mount", "grantPermission"}
                /\ permRequests' = permRequests + 1
        /\ lastEvent' = "mount" => ~mounted
        /\ issued'.manual # issued.manual => lastEvent' = "grantPermission"]_vars

C9_Witness ==
  /\ ~isWeb
  /\ mounted
  /\ issued.auto = 1
  /\ issued.manual = MaxManualRequests

\* C10: a capture pressed in Idle that stores its photo, followed by retake,
\* ends in the state in which the capture was pressed: no image stored,
\* facing and permission as before.
C10_CaptureRetakeRoundTrip ==
  roundTrip = "retaken" =>
    /\ preCapture.img = Null
    /\ Snapshot = preCapture

C10_Witness ==
  /\ roundTrip = "retaken"
  /\ facing = "front"
  /\ lastEvent = "retake"

\* C11: analyze is offered only while Previewing, raises the processing
\* notice and leaves the stored image, facing and permission as they were.
C11_AnalyzeFrame ==
  [][lastEvent' = "analyze"
       => /\ capturedImage # Null
          /\ notice' = "Analyzing"
          /\ capturedImage' = capturedImage
          /\ facing' = facing
          /\ permission' = permission
          /\ inflight' = inflight]_vars

C11_Witness ==
  /\ lastEvent = "analyze"
  /\ notice = "Analyzing"
  /\ capturedImage # Null
  /\ BottomActionRendered

\* C12: toggleFacing happens only in Idle on a camera platform with
\* permission Granted, turns back into front and front into back, changes
\* nothing else, and nothing else changes facing (so it is fixed while
\* Previewing and on web).
C12_ToggleFacing ==
  [][/\ lastEvent' = "toggleFacing"
          => /\ ~isWeb /\ permission = "Granted" /\ capturedImage = Null
             /\ facing = "back" => facing' = "front"
             /\ facing = "front" => facing' = "back"
             /\ capturedImage' = capturedImage
             /\ permission' = permission
             /\ inflight' = inflight
     /\ facing' # facing => lastEvent' = "toggleFacing"
     /\ (capturedImage # Null \/ isWeb) => facing' = facing]_vars

C12_Witness ==
  /\ lastEvent = "toggleFacing"
  /\ facing = "back"
  /\ ~isWeb

\* C13: the retake update applied to an Idle state gives that state back,
\* and applied twice gives what it gives applied once.
C13_RetakeIdempotent ==
  /\ capturedImage = Null => RetakeState(Snapshot) = Snapshot
  /\ RetakeState(RetakeState(Snapshot)) = RetakeState(Snapshot)
  /\ RetakeState(Snapshot).img = Null

C13_Witness ==
  /\ lastEvent = "retake"
  /\ capturedImage = Null
  /\ facing = "front"

\* C14: while an image is stored, only retake changes capturedImage; the
\* completion of a capture or pick never replaces the previewed image.
C14_PreviewOnlyRetake ==
  [][(capturedImage # Null /\ capturedImage' # capturedImage)
       => lastEvent' = "retake"]_vars

\* C15: every step from Idle to Previewing completes a capture or pick that
\* was started after the latest retake.
C15_NoLateCompletion ==
  [][(capturedImage = Null /\ capturedImage' # Null)
       => \A op \in inflight : op \notin inflight' => ~op.stale]_vars

\* C16: every completion of the capture handler either stores the photo it
\* was handed or raises a notice.
C16_CaptureVisibleOutcome ==
  [][\A op \in inflight, result \in CaptureResults :
       CaptureResolve(op, result)
         => \/ result.kind = "photo" /\ capturedImage' = result.uri
            \/ notice' # NoNotice]_vars

\* C17: on a camera platform the gallery picker is launched only while the
\* permission is Granted, so every pick in flight, and every pick that
\* stores an image, was started with permission Granted.
C17_UploadNeedsGranted ==
  /\ [](~isWeb => \A op \in inflight : op.kind = "pick" => op.perm = "Granted")
  /\ [][(~isWeb /\ lastEvent' = "pressUpload") => permission = "Granted"]_vars

C17_Witness ==
  /\ ~isWeb
  /\ issued.manual > 0
  /\ permission = "Granted"
  /\ lastEvent = "pickStored"
  /\ capturedImage # Null
====
